---- MODULE Spec2Model ----
(***************************************************************************)
(* Voice-to-presentation generator (App.tsx, AudioRecorder.tsx,            *)
(* ImageUploader.tsx, PresentationViewer.tsx, geminiService.ts) as a state *)
(* machine.  React state and refs are the variables, every event handler   *)
(* or promise continuation is one action, and the pure helpers are         *)
(* operators.                                                              *)
(***************************************************************************)
EXTENDS Integers, Sequences, FiniteSets, TLC

\* ------------------------------------------------------------------ bounds
\* longest transcript text, in characters
MaxText == 2
\* files the user can select, in the image-ingestion specification
MaxFiles == 3
\* files the user can select, in the session specification
SessionFiles == 2
\* file selections whose reads are outstanding at once
MaxBatches == 2
\* longest digit run of the placeholder tokens tried
MaxDigits == 2
\* longest text recognised in one live session, in characters
MaxSpoken == 3
\* most results of one recognition event
MaxResults == 2
\* outstanding getUserMedia promises, and MediaRecorder objects of a session
MaxRecorders == 2
\* most slides of a response in the session specification
MaxSlides == 2
\* most elements of a response array in the structuring-client specification
MaxElems == 2
\* slides of the presentations of the navigator specification
NavSlides == 5
\* calls of handleDownloadPdf that run at once (one per viewer that was mounted)
MaxDownloads == 2

VARIABLES
    \* App.tsx state
    recordingState, transcript, uploadedImages, presentation, isLoading, error,
    currentSlide,
    \* the promise of generatePresentationFromText awaited at App.tsx:27
    genPromise,
    \* ImageUploader.tsx: the description of each UploadedImage object, and the
    \* file selections whose reads are not all complete, and the files selected so far
    imageDescription, batches, usedFiles,
    \* AudioRecorder.tsx: whether the mount effects have run, and window.SpeechRecognition
    mounted, hasSpeechAPI,
    \* AudioRecorder.tsx state and refs
    isLiveTranscriptionSupported, transcriptionMode, isTranscribing,
    speechRecognitionRef, finalTranscriptRef, mediaRecorderRef, audioChunksRef,
    \* the recognition engine's session, and the end events owed to aborted
    \* recognition objects that the ref no longer holds
    engine, orphanEnds,
    \* the outstanding getUserMedia promises, the MediaRecorder objects created,
    \* and the outstanding blob reads and transcribeAudio calls
    mediaRequests, recorders, transcriptions,
    \* PresentationViewer.tsx: the viewer's downloading flag, the capture
    \* containers attached to the document with a root mounted in them, and the
    \* calls of handleDownloadPdf that are at an await
    isDownloading, captureContainers, downloads,
    \* the handler that ran last, with its input
    lastOp

appVars == <<recordingState, transcript, uploadedImages, presentation, isLoading,
             error, currentSlide, genPromise>>
upVars == <<imageDescription, batches, usedFiles>>
liveVars == <<speechRecognitionRef, finalTranscriptRef, engine, orphanEnds>>
hiVars == <<mediaRecorderRef, audioChunksRef, mediaRequests, recorders, transcriptions>>
hiVars_rest == <<mediaRecorderRef, audioChunksRef, mediaRequests, recorders>>
modeVars == <<mounted, hasSpeechAPI, isLiveTranscriptionSupported, transcriptionMode>>
recVars == <<modeVars, isTranscribing, liveVars, hiVars>>

pdfVars == <<isDownloading, captureContainers, downloads>>

vars == <<appVars, upVars, recVars, pdfVars, lastOp>>

\* ------------------------------------------------------------------ values
\* text is a sequence of characters; " " is the whitespace character
Chars == {"a", " "}

RECURSIVE SeqsUpTo(_, _)
SeqsUpTo(S, n) ==
    IF n = 0 THEN {<<>>}
    ELSE LET shorter == SeqsUpTo(S, n - 1)
         IN  shorter \cup {Append(s, x) : s \in {t \in shorter : Len(t) = n - 1}, x \in S}

Texts == SeqsUpTo(Chars, MaxText)

\* String.prototype.trim
RECURSIVE TrimStart(_)
TrimStart(s) == IF s # <<>> /\ Head(s) = " " THEN TrimStart(Tail(s)) ELSE s

RECURSIVE TrimEnd(_)
TrimEnd(s) ==
    IF s # <<>> /\ s[Len(s)] = " " THEN TrimEnd(SubSeq(s, 1, Len(s) - 1)) ELSE s

Trim(s) == TrimEnd(TrimStart(s))

\* files the user can select; each is selected at most once, so that an
\* UploadedImage object is identified by its file
Files == 1 .. MaxFiles
Descriptions == {"", "d"}

\* an optional string: undefined, or a sequence of characters
Undefined == [defined |-> FALSE, str |-> <<>>]
Str(s) == [defined |-> TRUE, str |-> s]

\* a nullable array
Null == [isNull |-> TRUE, arr |-> <<>>]
Arr(a) == [isNull |-> FALSE, arr |-> a]

NoError == <<>>


\* ------------------------------------------------- geminiService.ts
\* A parsed JSON element of the response array.  keys: which of the required
\* keys the element has; contentIsArray: Array.isArray(element.content).
RequiredKeys == {"title", "content", "speakerNotes"}

\* JSON values on which the `in` operator throws a TypeError
PrimitiveTypes == {"null", "number", "string", "boolean"}

Element(t, ks, ca, p) ==
    [t |-> t, keys |-> ks, contentIsArray |-> ca, imagePlaceholder |-> p]

\* the remote call's outcomes: the promise rejects, or resolves with a text
\* that JSON.parse rejects or parses to a value
Reject == [kind |-> "reject", json |-> "none", elems |-> <<>>]
TextResponse(j, a) == [kind |-> "text", json |-> j, elems |-> a]
Unparseable == TextResponse("unparseable", <<>>)
JsonArray(a) == TextResponse("array", a)
NonArrayJson == {TextResponse(j, <<>>) : j \in {"object", "null", "number", "string"}}

FormatError == "AI response did not match the expected presentation format."
GenerationError == "Failed to generate presentation. Please check the console for details."

\* the callback without its test for speakerNotes
SlideCheckNoSpeakerNotes(slide) ==
    /\ "title" \in slide.keys
    /\ "content" \in slide.keys
    /\ slide.contentIsArray

\* the callback of every(), geminiService.ts:103-104
SlideCheck(slide) ==
    /\ "title" \in slide.keys
    /\ "content" \in slide.keys
    /\ "speakerNotes" \in slide.keys
    /\ slide.contentIsArray

\* a validation that looks at the first element only
EverySlideFirstOnly(arr) ==
    IF arr = <<>> THEN "true"
    ELSE IF Head(arr).t \in PrimitiveTypes THEN "throws"
    ELSE IF SlideCheck(Head(arr)) THEN "true"
    ELSE "false"

\* Array.prototype.every with that callback: stops at the first false, and the
\* `in` operator throws on a primitive element
RECURSIVE EverySlide(_)
EverySlide(arr) ==
    IF arr = <<>> THEN "true"
    ELSE IF Head(arr).t \in PrimitiveTypes THEN "throws"
    ELSE IF SlideCheck(Head(arr)) THEN EverySlide(Tail(arr))
    ELSE "false"

Threw(e) == [threw |-> TRUE, exception |-> e, value |-> <<>>]
Returned(v) == [threw |-> FALSE, exception |-> "", value |-> v]

\* the try block, geminiService.ts:88-109
TryBlock(response) ==
    IF response.kind = "reject" THEN Threw("transport")
    ELSE IF response.json = "unparseable" THEN Threw("SyntaxError")
    ELSE IF response.json = "array"
         THEN LET every == EverySlide(response.elems)
              IN  IF every = "throws" THEN Threw("TypeError")
                  ELSE IF every = "true" THEN Returned(response.elems)
                  ELSE Threw(FormatError)
    ELSE Threw(FormatError)

\* the catch block rethrowing what it caught instead of the generic error
CatchRethrows(response) ==
    LET r == TryBlock(response)
    IN  IF r.threw THEN [ok |-> FALSE, value |-> <<>>, error |-> r.exception]
        ELSE [ok |-> TRUE, value |-> r.value, error |-> ""]

\* how the promise of generatePresentationFromText settles for a remote outcome
generatePresentationFromText(response) ==
    LET r == TryBlock(response)
    IN  IF r.threw THEN [ok |-> FALSE, value |-> <<>>, error |-> GenerationError]
        ELSE [ok |-> TRUE, value |-> r.value, error |-> ""]

\* the promise awaited at App.tsx:27, with the arguments of the call; viewed is
\* the slide index that was shown when the call was made
NoPromise == [state |-> "none", text |-> <<>>, images |-> <<>>, viewed |-> 0]
Pending(text, images, viewed) ==
    [state |-> "pending", text |-> text, images |-> images, viewed |-> viewed]

\* ------------------------------------------------- App.tsx
\* AudioRecorder.tsx:196
isBusy == isLoading \/ isTranscribing

EmptyInputError == <<"A transcript or at least one image must be provided.">>
EmptyResultError ==
    <<"The AI could not generate a presentation from the provided text. Please try again with a more detailed transcript.">>
CaughtError(message) ==
    <<"An error occurred while generating the presentation: ", message>>

\* handleGeneratePresentation not resetting the slide index
GenerateClickKeepsSlide ==
    /\ ~isBusy
    /\ ~(Trim(transcript) = <<>> /\ Len(uploadedImages) = 0)
    /\ isLoading' = TRUE
    /\ error' = NoError
    /\ presentation' = Null
    /\ genPromise' = Pending(transcript, uploadedImages, currentSlide)
    /\ lastOp' = <<"handleGeneratePresentation", currentSlide>>
    /\ UNCHANGED <<recordingState, transcript, uploadedImages, currentSlide, upVars,
                   recVars>>
    /\ isDownloading' = FALSE
    /\ downloads' = [d \in DOMAIN downloads |-> [downloads[d] EXCEPT !.viewer = "unmounted"]]
    /\ UNCHANGED captureContainers

\* handleGeneratePresentation leaving the previous presentation in place
\* while the request runs
GenerateClickKeepsPresentation ==
    /\ ~isBusy
    /\ ~(Trim(transcript) = <<>> /\ Len(uploadedImages) = 0)
    /\ isLoading' = TRUE
    /\ error' = NoError
    /\ currentSlide' = 0
    /\ genPromise' = Pending(transcript, uploadedImages, currentSlide)
    /\ lastOp' = <<"handleGeneratePresentation", currentSlide>>
    /\ UNCHANGED <<recordingState, transcript, uploadedImages, presentation, upVars,
                   recVars>>
    /\ UNCHANGED pdfVars

\* the generate button disabled by isLoading alone
GenerateClickWhileTranscribing ==
    /\ ~isLoading
    /\ ~(Trim(transcript) = <<>> /\ Len(uploadedImages) = 0)
    /\ isLoading' = TRUE
    /\ error' = NoError
    /\ presentation' = Null
    /\ currentSlide' = 0
    /\ genPromise' = Pending(transcript, uploadedImages, currentSlide)
    /\ lastOp' = <<"handleGeneratePresentation", currentSlide>>
    /\ UNCHANGED <<recordingState, transcript, uploadedImages, upVars, recVars>>
    /\ isDownloading' = FALSE
    /\ downloads' = [d \in DOMAIN downloads |-> [downloads[d] EXCEPT !.viewer = "unmounted"]]
    /\ UNCHANGED captureContainers

\* the generate button's click (enabled as AudioRecorder.tsx:279 says):
\* handleGeneratePresentation up to its await
GenerateClick ==
    /\ ~isBusy
    /\ ~(Trim(transcript) = <<>> /\ Len(uploadedImages) = 0)
    /\ IF Trim(transcript) = <<>> /\ Len(uploadedImages) = 0
       THEN /\ error' = EmptyInputError
            /\ UNCHANGED <<isLoading, presentation, currentSlide, genPromise>>
       ELSE /\ isLoading' = TRUE
            /\ error' = NoError
            /\ presentation' = Null
            /\ currentSlide' = 0
            /\ genPromise' = Pending(transcript, uploadedImages, currentSlide)
    /\ lastOp' = <<"handleGeneratePresentation", currentSlide>>
    /\ UNCHANGED <<recordingState, transcript, uploadedImages, upVars, recVars>>
    /\ isDownloading' = FALSE
    /\ downloads' = [d \in DOMAIN downloads |-> [downloads[d] EXCEPT !.viewer = "unmounted"]]
    /\ UNCHANGED captureContainers

\* handleGeneratePresentation clearing the flag on every path but the one of
\* a call that returned no slide
GenSettleNoFinally(response) ==
    /\ genPromise.state = "pending"
    /\ LET result == generatePresentationFromText(response)
       IN  /\ IF result.ok
              THEN IF Len(result.value) > 0
                   THEN presentation' = Arr(result.value) /\ UNCHANGED error
                   ELSE error' = EmptyResultError /\ UNCHANGED presentation
              ELSE error' = CaughtError(result.error) /\ UNCHANGED presentation
           /\ isLoading' = (result.ok /\ Len(result.value) = 0)
           /\ lastOp' = <<"generatePresentationFromText",
                          [text |-> genPromise.text, viewed |-> genPromise.viewed,
                           response |-> response, result |-> result]>>
    /\ genPromise' = NoPromise
    /\ UNCHANGED <<recordingState, transcript, uploadedImages, currentSlide, upVars,
                   recVars>>
    /\ UNCHANGED pdfVars

\* handleGeneratePresentation exposing whatever array the call returned
GenSettleExposesEmpty(response) ==
    /\ genPromise.state = "pending"
    /\ LET result == generatePresentationFromText(response)
       IN  /\ IF result.ok
              THEN presentation' = Arr(result.value) /\ UNCHANGED error
              ELSE error' = CaughtError(result.error) /\ UNCHANGED presentation
           /\ lastOp' = <<"generatePresentationFromText",
                          [text |-> genPromise.text, viewed |-> genPromise.viewed,
                           response |-> response, result |-> result]>>
    /\ isLoading' = FALSE
    /\ genPromise' = NoPromise
    /\ UNCHANGED <<recordingState, transcript, uploadedImages, currentSlide, upVars,
                   recVars>>
    /\ UNCHANGED pdfVars

\* the promise settles: handleGeneratePresentation from its await to its end
GenSettle(response) ==
    /\ genPromise.state = "pending"
    /\ LET result == generatePresentationFromText(response)
       IN  /\ IF result.ok
              THEN IF Len(result.value) > 0
                   THEN presentation' = Arr(result.value) /\ UNCHANGED error
                   ELSE error' = EmptyResultError /\ UNCHANGED presentation
              ELSE error' = CaughtError(result.error) /\ UNCHANGED presentation
           /\ lastOp' = <<"generatePresentationFromText",
                          [text |-> genPromise.text, viewed |-> genPromise.viewed,
                           response |-> response, result |-> result]>>
    /\ isLoading' = FALSE
    /\ genPromise' = NoPromise
    /\ UNCHANGED <<recordingState, transcript, uploadedImages, currentSlide, upVars,
                   recVars>>
    /\ UNCHANGED pdfVars

\* handleNextSlide wrapping around at the last slide
handleNextSlideWraps ==
    /\ ~presentation.isNull
    /\ currentSlide' = (currentSlide + 1) % Len(presentation.arr)
    /\ lastOp' = <<"handleNextSlide", currentSlide>>
    /\ UNCHANGED <<recordingState, transcript, uploadedImages, presentation, isLoading,
                   error, genPromise, upVars, recVars>>
    /\ UNCHANGED pdfVars

\* handleNextSlide; it is passed to the viewer, which is rendered only when a
\* presentation is set (App.tsx:91)
handleNextSlide ==
    /\ ~presentation.isNull
    /\ IF ~presentation.isNull /\ currentSlide < Len(presentation.arr) - 1
       THEN currentSlide' = currentSlide + 1
       ELSE UNCHANGED currentSlide
    /\ lastOp' = <<"handleNextSlide", currentSlide>>
    /\ UNCHANGED <<recordingState, transcript, uploadedImages, presentation, isLoading,
                   error, genPromise, upVars, recVars>>
    /\ UNCHANGED pdfVars

handlePrevSlide ==
    /\ ~presentation.isNull
    /\ IF currentSlide > 0
       THEN currentSlide' = currentSlide - 1
       ELSE UNCHANGED currentSlide
    /\ lastOp' = <<"handlePrevSlide", currentSlide>>
    /\ UNCHANGED <<recordingState, transcript, uploadedImages, presentation, isLoading,
                   error, genPromise, upVars, recVars>>
    /\ UNCHANGED pdfVars

\* the viewer's buttons, disabled at the ends (PresentationViewer.tsx:173-191)
NextSlideClick ==
    /\ ~presentation.isNull
    /\ currentSlide # Len(presentation.arr) - 1
    /\ handleNextSlide

PrevSlideClick ==
    /\ ~presentation.isNull
    /\ currentSlide # 0
    /\ handlePrevSlide

\* the transcript textarea's onChange (AudioRecorder.tsx:256-268)
EditTranscript(text) ==
    /\ ~isBusy
    /\ transcript' = text
    /\ lastOp' = <<"onTranscriptChange", text>>
    /\ UNCHANGED <<recordingState, uploadedImages, presentation, isLoading, error,
                   currentSlide, genPromise, upVars, recVars>>
    /\ UNCHANGED pdfVars

\* ------------------------------------------------- ImageUploader.tsx
\* the sequences of distinct elements of S, of length 1 .. n
DistinctSeqs(S, n) ==
    {q \in SeqsUpTo(S, n) : q # <<>> /\ \A i, j \in 1 .. Len(q) : q[i] = q[j] => i = j}

Batch(files, newImages, unread, images) ==
    [files |-> files, newImages |-> newImages, unread |-> unread, images |-> images]

\* the file input's change event (the Add Images button is disabled while busy):
\* handleFileChange starts one read per file; `images` is the prop of this render
handleFileChange(files) ==
    /\ ~isBusy
    /\ Cardinality(batches) < MaxBatches
    /\ \A i \in 1 .. Len(files) : files[i] \notin usedFiles
    /\ batches' = batches \cup {Batch(files, <<>>, 1 .. Len(files), uploadedImages)}
    /\ usedFiles' = usedFiles \cup {files[i] : i \in 1 .. Len(files)}
    /\ lastOp' = <<"handleFileChange", files>>
    /\ UNCHANGED <<appVars, imageDescription, recVars>>
    /\ UNCHANGED pdfVars

\* reader.onload committing after every read rather than after the last one
ReaderLoadCommitsEach(b, i) ==
    /\ b \in batches
    /\ i \in b.unread
    /\ LET newImages == Append(b.newImages, b.files[i])
           complete == Len(newImages) = Len(b.files)
       IN  /\ uploadedImages' = b.images \o newImages
           /\ batches' = IF complete
                         THEN batches \ {b}
                         ELSE (batches \ {b})
                                 \cup {Batch(b.files, newImages, b.unread \ {i}, b.images)}
           /\ lastOp' = <<"reader.onload",
                          [batch |-> b, file |-> b.files[i], committed |-> complete]>>
    /\ UNCHANGED <<recordingState, transcript, presentation, isLoading, error,
                   currentSlide, genPromise, imageDescription, usedFiles, recVars>>
    /\ UNCHANGED pdfVars

\* reader.onload of the i-th file of a selection (ImageUploader.tsx:22-29)
ReaderLoad(b, i) ==
    /\ b \in batches
    /\ i \in b.unread
    /\ LET newImages == Append(b.newImages, b.files[i])
           complete == Len(newImages) = Len(b.files)
       IN  /\ IF complete
              THEN /\ uploadedImages' = b.images \o newImages
                   /\ batches' = batches \ {b}
              ELSE /\ batches' = (batches \ {b})
                                    \cup {Batch(b.files, newImages, b.unread \ {i}, b.images)}
                   /\ UNCHANGED uploadedImages
           /\ lastOp' = <<"reader.onload",
                          [batch |-> b, file |-> b.files[i], committed |-> complete]>>
    /\ UNCHANGED <<recordingState, transcript, presentation, isLoading, error,
                   currentSlide, genPromise, imageDescription, usedFiles, recVars>>
    /\ UNCHANGED pdfVars

\* a read fails: onload is not called for that file
ReaderError(b, i) ==
    /\ b \in batches
    /\ i \in b.unread
    /\ batches' = (batches \ {b})
                     \cup {Batch(b.files, b.newImages, b.unread \ {i}, b.images)}
    /\ lastOp' = <<"reader.onerror", [batch |-> b, file |-> b.files[i]]>>
    /\ UNCHANGED <<appVars, imageDescription, usedFiles, recVars>>
    /\ UNCHANGED pdfVars

\* images.filter((_, i) => i !== index), with index counted from 1
RemoveAt(images, index) ==
    [k \in 1 .. Len(images) - 1 |-> IF k < index THEN images[k] ELSE images[k + 1]]

\* the remove button of an image (never disabled)
handleRemoveImage(index) ==
    /\ index \in 1 .. Len(uploadedImages)
    /\ uploadedImages' = RemoveAt(uploadedImages, index)
    /\ lastOp' = <<"handleRemoveImage", index>>
    /\ UNCHANGED <<recordingState, transcript, presentation, isLoading, error,
                   currentSlide, genPromise, upVars, recVars>>
    /\ UNCHANGED pdfVars

\* the description input of an image (disabled while busy): the object is
\* changed in place and a copy of the array is set
handleDescriptionChange(index, description) ==
    /\ ~isBusy
    /\ index \in 1 .. Len(uploadedImages)
    /\ imageDescription' = [imageDescription EXCEPT ![uploadedImages[index]] = description]
    /\ lastOp' = <<"handleDescriptionChange", index>>
    /\ UNCHANGED <<appVars, batches, usedFiles, recVars>>
    /\ UNCHANGED pdfVars

\* ------------------------------------------------- PresentationViewer.tsx
IMAGE_ == <<"I", "M", "A", "G", "E", "_">>
Digits == {"0", "1", "2", "3", "4", "5", "6", "7", "8", "9"}

DigitValue(c) ==
    CASE c = "0" -> 0 [] c = "1" -> 1 [] c = "2" -> 2 [] c = "3" -> 3 [] c = "4" -> 4
      [] c = "5" -> 5 [] c = "6" -> 6 [] c = "7" -> 7 [] c = "8" -> 8 [] c = "9" -> 9

\* the longest run of digits of str that starts at position i
RECURSIVE DigitRun(_, _)
DigitRun(str, i) ==
    IF i <= Len(str) /\ str[i] \in Digits
    THEN <<str[i]>> \o DigitRun(str, i + 1)
    ELSE <<>>

NoMatch == [matched |-> FALSE, group |-> <<>>]

\* the pattern with \d in place of \d+: the group is the first digit alone
RECURSIVE MatchFromOneDigit(_, _)
MatchFromOneDigit(str, i) ==
    IF i + Len(IMAGE_) > Len(str) THEN NoMatch
    ELSE IF /\ SubSeq(str, i, i + Len(IMAGE_) - 1) = IMAGE_
            /\ str[i + Len(IMAGE_)] \in Digits
         THEN [matched |-> TRUE, group |-> <<str[i + Len(IMAGE_)]>>]
         ELSE MatchFromOneDigit(str, i + 1)

\* str.match(/IMAGE_(\d+)/) trying the positions from i on, leftmost first
RECURSIVE MatchFrom(_, _)
MatchFrom(str, i) ==
    IF i + Len(IMAGE_) > Len(str) THEN NoMatch
    ELSE IF /\ SubSeq(str, i, i + Len(IMAGE_) - 1) = IMAGE_
            /\ str[i + Len(IMAGE_)] \in Digits
         THEN [matched |-> TRUE, group |-> DigitRun(str, i + Len(IMAGE_))]
         ELSE MatchFrom(str, i + 1)

\* parseInt(digits, 10)
RECURSIVE ParseInt(_)
ParseInt(digits) ==
    IF digits = <<>> THEN 0
    ELSE 10 * ParseInt(SubSeq(digits, 1, Len(digits) - 1)) + DigitValue(digits[Len(digits)])

NoImage == [found |-> FALSE, image |-> 0]
Image(f) == [found |-> TRUE, image |-> f]

\* PresentationViewer.tsx:27
InRange(imageIndex, images) == imageIndex >= 0 /\ imageIndex < Len(images)

\* slideImage of SlideContent (PresentationViewer.tsx:21-31)
SlideContent(slide, images) ==
    IF slide.imagePlaceholder.defined /\ slide.imagePlaceholder.str # <<>>
    THEN LET match == MatchFrom(slide.imagePlaceholder.str, 1)
         IN  IF match.matched
             THEN LET imageIndex == ParseInt(match.group) - 1
                  IN  IF InRange(imageIndex, images)
                      THEN Image(images[imageIndex + 1])
                      ELSE NoImage
             ELSE NoImage
    ELSE NoImage

\* the alert of handleDownloadPdf's catch block (PresentationViewer.tsx:134)
PdfAlert == "Sorry, there was an error creating the PDF."

\* a call of handleDownloadPdf at an await of its loop: the slide index i, the
\* length of the presentation it closed over, the promise it waits for, and
\* whether the viewer that started it is still mounted
Capture(i, slides, await, viewer) ==
    [i |-> i, slides |-> slides, await |-> await, viewer |-> viewer]

\* the finally block (PresentationViewer.tsx:135-139) of the call d: the root
\* is unmounted and the container removed from the document, and the flag of
\* the viewer that started the call is cleared (a state update of an unmounted
\* component is dropped)
PdfFinally(d, saved, alert) ==
    /\ captureContainers' = captureContainers - 1
    /\ isDownloading' = IF downloads[d].viewer = "mounted" THEN FALSE ELSE isDownloading
    /\ downloads' = RemoveAt(downloads, d)
    /\ lastOp' = <<"handleDownloadPdf.finally",
                   [i |-> downloads[d].i, saved |-> saved, alert |-> alert,
                    viewer |-> downloads[d].viewer]>>

\* the download button's click (disabled while isDownloading,
\* PresentationViewer.tsx:148-150): handleDownloadPdf up to the first await of
\* its loop, or to its end when the presentation has no slide
DownloadClick ==
    /\ ~presentation.isNull
    /\ ~isDownloading
    /\ Len(downloads) < MaxDownloads
    /\ IF Len(presentation.arr) > 0
       THEN /\ isDownloading' = TRUE
            /\ captureContainers' = captureContainers + 1
            /\ downloads' = Append(downloads,
                                   Capture(0, Len(presentation.arr), "setTimeout", "mounted"))
       ELSE UNCHANGED pdfVars
    /\ lastOp' = <<"handleDownloadPdf", Len(presentation.arr)>>
    /\ UNCHANGED <<appVars, upVars, recVars>>

\* the 100 ms wait of the call d ends and html2canvas is called
\* (PresentationViewer.tsx:113-119)
CaptureTimer(d) ==
    /\ downloads[d].await = "setTimeout"
    /\ downloads' = [downloads EXCEPT ![d].await = "html2canvas"]
    /\ lastOp' = <<"setTimeout", downloads[d].i>>
    /\ UNCHANGED <<appVars, upVars, recVars, isDownloading, captureContainers>>

\* html2canvas resolves for the call d and the page is added
\* (PresentationViewer.tsx:121-127); the loop goes on to the next slide, or the
\* document is saved and the finally block runs
CaptureDone(d) ==
    /\ downloads[d].await = "html2canvas"
    /\ IF downloads[d].i + 1 < downloads[d].slides
       THEN /\ downloads' = [downloads EXCEPT ![d].i = @ + 1, ![d].await = "setTimeout"]
            /\ lastOp' = <<"html2canvas", downloads[d].i>>
            /\ UNCHANGED <<isDownloading, captureContainers>>
       ELSE PdfFinally(d, TRUE, "")
    /\ UNCHANGED <<appVars, upVars, recVars>>

\* a failed capture that raises the alert and skips the finally block
CaptureFailsNoFinally(d) ==
    /\ downloads[d].await = "html2canvas"
    /\ downloads' = RemoveAt(downloads, d)
    /\ lastOp' = <<"handleDownloadPdf.finally",
                   [i |-> downloads[d].i, saved |-> FALSE, alert |-> PdfAlert,
                    viewer |-> downloads[d].viewer]>>
    /\ UNCHANGED <<appVars, upVars, recVars, isDownloading, captureContainers>>

\* html2canvas rejects for the call d, or toDataURL, addPage, addImage or save
\* throws after it resolved: the catch block raises the alert and the finally
\* block runs (PresentationViewer.tsx:132-139)
CaptureFails(d) ==
    /\ downloads[d].await = "html2canvas"
    /\ PdfFinally(d, FALSE, PdfAlert)
    /\ UNCHANGED <<appVars, upVars, recVars>>

\* ------------------------------------------------- AudioRecorder.tsx
\* a SpeechRecognition object with the recordingState that its onend handler
\* closed over when the effect created it
NoRecognition == [isNull |-> TRUE, recordingState |-> "idle"]
Recognition(state) == [isNull |-> FALSE, recordingState |-> state]

\* the second effect (AudioRecorder.tsx:51-94) run for a mode and a support
\* flag: the ref it leaves
EffectRef(mode, supported) ==
    IF ~supported \/ mode # "live" THEN NoRecognition ELSE Recognition(recordingState)

\* the end events owed after the effect's cleanup and body have aborted the
\* recognition object that the ref held
EffectOrphans ==
    IF ~speechRecognitionRef.isNull /\ engine # "inactive"
    THEN orphanEnds \cup {speechRecognitionRef.recordingState}
    ELSE orphanEnds

\* the mount effects with a probe that leaves the mode as it is
MountKeepsMode ==
    /\ ~mounted
    /\ mounted' = TRUE
    /\ isLiveTranscriptionSupported' = hasSpeechAPI
    /\ speechRecognitionRef' = EffectRef(transcriptionMode, isLiveTranscriptionSupported')
    /\ lastOp' = <<"mount", hasSpeechAPI>>
    /\ UNCHANGED <<appVars, upVars, hasSpeechAPI, transcriptionMode, isTranscribing,
                   finalTranscriptRef, engine, orphanEnds, hiVars>>
    /\ UNCHANGED pdfVars

\* the mount effects (AudioRecorder.tsx:41-48 and 51-94) and the re-render
\* that the first one causes
Mount ==
    /\ ~mounted
    /\ mounted' = TRUE
    /\ IF hasSpeechAPI
       THEN /\ isLiveTranscriptionSupported' = TRUE
            /\ UNCHANGED transcriptionMode
       ELSE /\ transcriptionMode' = "high-accuracy"
            /\ UNCHANGED isLiveTranscriptionSupported
    /\ speechRecognitionRef' = EffectRef(transcriptionMode', isLiveTranscriptionSupported')
    /\ lastOp' = <<"mount", hasSpeechAPI>>
    /\ UNCHANGED <<appVars, upVars, hasSpeechAPI, isTranscribing, finalTranscriptRef,
                   engine, orphanEnds, hiVars>>
    /\ UNCHANGED pdfVars

\* the mode toggle left enabled during a recording
ToggleModeWhileRecording ==
    /\ mounted
    /\ ~(isBusy \/ ~isLiveTranscriptionSupported)
    /\ transcriptionMode' = IF transcriptionMode = "live" THEN "high-accuracy" ELSE "live"
    /\ speechRecognitionRef' = EffectRef(transcriptionMode', isLiveTranscriptionSupported)
    /\ orphanEnds' = EffectOrphans
    /\ engine' = "inactive"
    /\ lastOp' = <<"setTranscriptionMode", transcriptionMode>>
    /\ UNCHANGED <<appVars, upVars, mounted, hasSpeechAPI, isLiveTranscriptionSupported,
                   isTranscribing, finalTranscriptRef, hiVars>>
    /\ UNCHANGED pdfVars

\* the mode toggle (AudioRecorder.tsx:221-226) and the effect it re-runs
ToggleMode ==
    /\ mounted
    /\ ~(isBusy \/ recordingState = "recording" \/ ~isLiveTranscriptionSupported)
    /\ transcriptionMode' = IF transcriptionMode = "live" THEN "high-accuracy" ELSE "live"
    /\ speechRecognitionRef' = EffectRef(transcriptionMode', isLiveTranscriptionSupported)
    /\ orphanEnds' = EffectOrphans
    /\ engine' = "inactive"
    /\ lastOp' = <<"setTranscriptionMode", transcriptionMode>>
    /\ UNCHANGED <<appVars, upVars, mounted, hasSpeechAPI, isLiveTranscriptionSupported,
                   isTranscribing, finalTranscriptRef, hiVars>>
    /\ UNCHANGED pdfVars

\* the loop of onresult appending the interim results to the final text too
RECURSIVE ResultLoopKeepsInterim(_, _, _)
ResultLoopKeepsInterim(results, finalTranscript, interimTranscript) ==
    IF results = <<>>
    THEN [final |-> finalTranscript, interim |-> interimTranscript]
    ELSE IF Head(results).isFinal
         THEN ResultLoopKeepsInterim(Tail(results),
                                     finalTranscript \o Head(results).transcript,
                                     interimTranscript)
         ELSE ResultLoopKeepsInterim(Tail(results),
                                     finalTranscript \o Head(results).transcript,
                                     interimTranscript \o Head(results).transcript)

\* the loop of onresult over the results from event.resultIndex on
\* (AudioRecorder.tsx:69-75)
RECURSIVE ResultLoop(_, _, _)
ResultLoop(results, finalTranscript, interimTranscript) ==
    IF results = <<>>
    THEN [final |-> finalTranscript, interim |-> interimTranscript]
    ELSE IF Head(results).isFinal
         THEN ResultLoop(Tail(results), finalTranscript \o Head(results).transcript,
                         interimTranscript)
         ELSE ResultLoop(Tail(results), finalTranscript,
                         interimTranscript \o Head(results).transcript)

\* recognition.onresult (AudioRecorder.tsx:66-78); the engine delivers results
\* while it listens and, after stop(), until it ends
OnResult(results) ==
    /\ ~speechRecognitionRef.isNull
    /\ engine \in {"listening", "stopping"}
    /\ LET r == ResultLoop(results, finalTranscriptRef, <<>>)
       IN  /\ Len(r.final \o r.interim) <= MaxSpoken
           /\ finalTranscriptRef' = r.final
           /\ transcript' = r.final \o r.interim
    /\ lastOp' = <<"recognition.onresult", results>>
    /\ UNCHANGED <<recordingState, uploadedImages, presentation, isLoading, error,
                   currentSlide, genPromise, upVars, modeVars, isTranscribing,
                   speechRecognitionRef, engine, orphanEnds, hiVars>>
    /\ UNCHANGED pdfVars

\* recognition.onend putting the state back to idle whenever it fires
OnEndResetsIdle ==
    /\ ~speechRecognitionRef.isNull
    /\ engine # "inactive"
    /\ engine' = "inactive"
    /\ recordingState' = "idle"
    /\ lastOp' = <<"recognition.onend", recordingState>>
    /\ UNCHANGED <<transcript, uploadedImages, presentation, isLoading, error,
                   currentSlide, genPromise, upVars, modeVars, isTranscribing,
                   speechRecognitionRef, finalTranscriptRef, orphanEnds, hiVars>>
    /\ UNCHANGED pdfVars

\* recognition.onend (AudioRecorder.tsx:80-87) of the object the ref holds:
\* the engine ended the session itself, or after stop()
OnEnd ==
    /\ ~speechRecognitionRef.isNull
    /\ engine # "inactive"
    /\ engine' = "inactive"
    /\ IF speechRecognitionRef.recordingState = "recording"
       THEN recordingState' = "stopped"
       ELSE UNCHANGED recordingState
    /\ lastOp' = <<"recognition.onend", recordingState>>
    /\ UNCHANGED <<transcript, uploadedImages, presentation, isLoading, error,
                   currentSlide, genPromise, upVars, modeVars, isTranscribing,
                   speechRecognitionRef, finalTranscriptRef, orphanEnds, hiVars>>
    /\ UNCHANGED pdfVars

\* onend of an aborted recognition object
OrphanEnd(closure) ==
    /\ closure \in orphanEnds
    /\ orphanEnds' = orphanEnds \ {closure}
    /\ IF closure = "recording"
       THEN recordingState' = "stopped"
       ELSE UNCHANGED recordingState
    /\ lastOp' = <<"recognition.onend", recordingState>>
    /\ UNCHANGED <<transcript, uploadedImages, presentation, isLoading, error,
                   currentSlide, genPromise, upVars, modeVars, isTranscribing,
                   speechRecognitionRef, finalTranscriptRef, engine, hiVars>>
    /\ UNCHANGED pdfVars

LiveStartAlert == "Could not start live transcription. Please try again."
LiveUnavailableAlert == "Live transcription is not available. Try High-Accuracy mode."
MicrophoneAlert == "Could not access microphone. Please ensure you have given permission."

\* the record button (disabled while busy) when not recording: startRecording
\* up to its await; start() throws when the engine's session has not ended
StartRecording ==
    /\ mounted
    /\ ~isBusy
    /\ recordingState # "recording"
    /\ transcript' = <<>>
    /\ finalTranscriptRef' = <<>>
    /\ IF transcriptionMode = "live"
       THEN /\ IF ~speechRecognitionRef.isNull
               THEN IF engine = "inactive"
                    THEN /\ engine' = "listening"
                         /\ recordingState' = "recording"
                         /\ lastOp' = <<"startRecording", "">>
                    ELSE /\ recordingState' = "idle"
                         /\ lastOp' = <<"startRecording", LiveStartAlert>>
                         /\ UNCHANGED engine
               ELSE /\ recordingState' = "idle"
                    /\ lastOp' = <<"startRecording", LiveUnavailableAlert>>
                    /\ UNCHANGED engine
            /\ UNCHANGED mediaRequests
       ELSE /\ mediaRequests + Len(recorders) < MaxRecorders
            /\ mediaRequests' = mediaRequests + 1
            /\ recordingState' = "recording"
            /\ lastOp' = <<"startRecording", "">>
            /\ UNCHANGED engine
    /\ UNCHANGED <<uploadedImages, presentation, isLoading, error, currentSlide,
                   genPromise, upVars, modeVars, isTranscribing, speechRecognitionRef,
                   orphanEnds, mediaRecorderRef, audioChunksRef, recorders,
                   transcriptions>>
    /\ UNCHANGED pdfVars

\* a stream that getUserMedia returned, with the state of the MediaRecorder
\* made for it ("unconstructed" when the constructor threw) and whether the
\* recorder's stop event is still to be delivered; the stream's tracks are
\* live until stopRecording stops them
Recorder(state, stopEvent) == [state |-> state, stopEvent |-> stopEvent]

\* the record button when recording: stopRecording (AudioRecorder.tsx:173-186)
StopRecording ==
    /\ mounted
    /\ ~isBusy
    /\ recordingState = "recording"
    /\ IF transcriptionMode = "live"
       THEN /\ engine' = IF ~speechRecognitionRef.isNull /\ engine = "listening"
                         THEN "stopping"
                         ELSE engine
            /\ UNCHANGED recorders
       ELSE /\ recorders' =
                   IF mediaRecorderRef # 0 /\ recorders[mediaRecorderRef].state = "recording"
                   THEN [recorders EXCEPT ![mediaRecorderRef] =
                            Recorder("inactive", TRUE)]
                   ELSE recorders
            /\ UNCHANGED engine
    /\ recordingState' = "stopped"
    /\ lastOp' = <<"stopRecording", transcriptionMode>>
    /\ UNCHANGED <<transcript, uploadedImages, presentation, isLoading, error,
                   currentSlide, genPromise, upVars, modeVars, isTranscribing,
                   speechRecognitionRef, finalTranscriptRef, orphanEnds, mediaRecorderRef,
                   audioChunksRef, mediaRequests, transcriptions>>
    /\ UNCHANGED pdfVars

\* getUserMedia resolves: startRecording after its await (AudioRecorder.tsx:157-164)
UserMediaResolve ==
    /\ mediaRequests > 0
    /\ mediaRequests' = mediaRequests - 1
    /\ audioChunksRef' = {}
    /\ recorders' = Append(recorders, Recorder("recording", FALSE))
    /\ mediaRecorderRef' = Len(recorders) + 1
    /\ lastOp' = <<"getUserMedia", "">>
    /\ UNCHANGED <<appVars, upVars, modeVars, isTranscribing, liveVars, transcriptions>>
    /\ UNCHANGED pdfVars

\* getUserMedia resolves and new MediaRecorder(stream, {mimeType: 'audio/webm'})
\* throws: the catch block (AudioRecorder.tsx:165-169) with the stream acquired
RecorderConstructThrows ==
    /\ mediaRequests > 0
    /\ mediaRequests' = mediaRequests - 1
    /\ audioChunksRef' = {}
    /\ recorders' = Append(recorders, Recorder("unconstructed", FALSE))
    /\ recordingState' = "idle"
    /\ lastOp' = <<"getUserMedia", MicrophoneAlert>>
    /\ UNCHANGED <<transcript, uploadedImages, presentation, isLoading, error,
                   currentSlide, genPromise, upVars, modeVars, isTranscribing, liveVars,
                   mediaRecorderRef, transcriptions>>
    /\ UNCHANGED pdfVars

\* getUserMedia rejects: the catch block (AudioRecorder.tsx:165-169)
UserMediaReject ==
    /\ mediaRequests > 0
    /\ mediaRequests' = mediaRequests - 1
    /\ recordingState' = "idle"
    /\ lastOp' = <<"getUserMedia", MicrophoneAlert>>
    /\ UNCHANGED <<transcript, uploadedImages, presentation, isLoading, error,
                   currentSlide, genPromise, upVars, modeVars, isTranscribing, liveVars,
                   mediaRecorderRef, audioChunksRef, recorders, transcriptions>>
    /\ UNCHANGED pdfVars

\* recorder.ondataavailable (AudioRecorder.tsx:160-162) of recorder r, for a
\* chunk of some size: the buffer after the event; a chunk is written as the
\* recorder it comes from, and the buffer as the set of the chunks in it
DataAvailable(chunks, r, size) == IF size > 0 THEN chunks \cup {r} ELSE chunks

TranscribingMessage == <<"Transcribing audio with Gemini AI, please wait...">>
TranscribeError == "Failed to transcribe audio. Please check the console for details."
TranscriptionErrorMessage(message) == <<"Error during transcription: ", message>>

\* a blob being read, or being transcribed by the remote call
Transcription(stage, blob) == [stage |-> stage, blob |-> blob]

\* the stop task without line 106: the chunks stay in the buffer
RecorderStopKeepsChunks(r, size) ==
    /\ r \in 1 .. Len(recorders)
    /\ recorders[r].stopEvent
    /\ recorders' = [recorders EXCEPT ![r] = Recorder("inactive", FALSE)]
    /\ LET chunks == DataAvailable(audioChunksRef, r, size)
       IN  /\ audioChunksRef' = chunks
           /\ IF chunks = {}
              THEN /\ recordingState' = "stopped"
                   /\ UNCHANGED <<isTranscribing, transcript, transcriptions>>
              ELSE /\ isTranscribing' = TRUE
                   /\ transcript' = TranscribingMessage
                   /\ transcriptions' = transcriptions \cup {Transcription("reading", chunks)}
                   /\ UNCHANGED recordingState
           /\ lastOp' = <<"handleGeminiTranscription", [recorder |-> r, blob |-> chunks]>>
    /\ UNCHANGED <<uploadedImages, presentation, isLoading, error, currentSlide,
                   genPromise, upVars, modeVars, liveVars, mediaRecorderRef,
                   mediaRequests>>
    /\ UNCHANGED pdfVars

\* the task that MediaRecorder.stop() queued for recorder r.  The recorder was
\* started without a timeslice (AudioRecorder.tsx:164), so it delivers its data
\* once, in this task: the dataavailable event with what was gathered, then
\* the stop event, which runs handleGeminiTranscription up to the read of the
\* blob (AudioRecorder.tsx:96-109)
RecorderStop(r, size) ==
    /\ r \in 1 .. Len(recorders)
    /\ recorders[r].stopEvent
    /\ recorders' = [recorders EXCEPT ![r] = Recorder("inactive", FALSE)]
    /\ LET chunks == DataAvailable(audioChunksRef, r, size)
       IN  /\ IF chunks = {}
              THEN /\ recordingState' = "stopped"
                   /\ UNCHANGED <<isTranscribing, transcript, audioChunksRef,
                                  transcriptions>>
              ELSE /\ isTranscribing' = TRUE
                   /\ transcript' = TranscribingMessage
                   /\ transcriptions' = transcriptions \cup {Transcription("reading", chunks)}
                   /\ audioChunksRef' = {}
                   /\ UNCHANGED recordingState
           /\ lastOp' = <<"handleGeminiTranscription", [recorder |-> r, blob |-> chunks]>>
    /\ UNCHANGED <<uploadedImages, presentation, isLoading, error, currentSlide,
                   genPromise, upVars, modeVars, liveVars, mediaRecorderRef,
                   mediaRequests>>
    /\ UNCHANGED pdfVars

\* reader.onloadend after the blob was read: transcribeAudio is called
BlobLoadEnd(t) ==
    /\ t \in transcriptions
    /\ t.stage = "reading"
    /\ transcriptions' = (transcriptions \ {t}) \cup {Transcription("calling", t.blob)}
    /\ lastOp' = <<"reader.onloadend", 0>>
    /\ UNCHANGED <<appVars, upVars, modeVars, isTranscribing, liveVars, mediaRecorderRef,
                   audioChunksRef, mediaRequests, recorders>>
    /\ UNCHANGED pdfVars

\* the read fails: reader.onerror, then reader.onloadend with no result, whose
\* transcribeAudio call throws inside its try block
BlobError(t) ==
    /\ t \in transcriptions
    /\ t.stage = "reading"
    /\ transcriptions' = transcriptions \ {t}
    /\ transcript' = TranscriptionErrorMessage(TranscribeError)
    /\ isTranscribing' = FALSE
    /\ recordingState' = "stopped"
    /\ lastOp' = <<"reader.onerror", TranscriptionErrorMessage(TranscribeError)>>
    /\ UNCHANGED <<uploadedImages, presentation, isLoading, error, currentSlide,
                   genPromise, upVars, modeVars, liveVars, hiVars_rest>>
    /\ UNCHANGED pdfVars

\* how the promise of transcribeAudio settles (geminiService.ts:11-31)
transcribeAudio(response) ==
    IF response.kind = "reject"
    THEN [ok |-> FALSE, text |-> <<>>, error |-> TranscribeError]
    ELSE [ok |-> TRUE, text |-> Trim(response.text), error |-> ""]

\* the rest of reader.onloadend without its finally block: a failure leaves
\* the flag and the recording state as they are
TranscribeSettleNoFinally(t, response) ==
    /\ t \in transcriptions
    /\ t.stage = "calling"
    /\ transcriptions' = transcriptions \ {t}
    /\ LET result == transcribeAudio(response)
       IN  /\ transcript' = IF result.ok THEN result.text
                            ELSE TranscriptionErrorMessage(result.error)
           /\ lastOp' = <<"transcribeAudio",
                          [response |-> response, result |-> result,
                           alert |-> IF result.ok THEN <<>>
                                     ELSE TranscriptionErrorMessage(result.error)]>>
           /\ IF result.ok
              THEN isTranscribing' = FALSE /\ recordingState' = "stopped"
              ELSE UNCHANGED <<isTranscribing, recordingState>>
    /\ UNCHANGED <<uploadedImages, presentation, isLoading, error, currentSlide,
                   genPromise, upVars, modeVars, liveVars, hiVars_rest>>
    /\ UNCHANGED pdfVars

\* transcribeAudio settles: the rest of reader.onloadend (AudioRecorder.tsx:112-123)
TranscribeSettle(t, response) ==
    /\ t \in transcriptions
    /\ t.stage = "calling"
    /\ transcriptions' = transcriptions \ {t}
    /\ LET result == transcribeAudio(response)
       IN  /\ transcript' = IF result.ok THEN result.text
                            ELSE TranscriptionErrorMessage(result.error)
           /\ lastOp' = <<"transcribeAudio",
                          [response |-> response, result |-> result,
                           alert |-> IF result.ok THEN <<>>
                                     ELSE TranscriptionErrorMessage(result.error)]>>
    /\ isTranscribing' = FALSE
    /\ recordingState' = "stopped"
    /\ UNCHANGED <<uploadedImages, presentation, isLoading, error, currentSlide,
                   genPromise, upVars, modeVars, liveVars, hiVars_rest>>
    /\ UNCHANGED pdfVars

Init ==
    /\ recordingState = "idle"
    /\ transcript = <<>>
    /\ uploadedImages = <<>>
    /\ presentation = Null
    /\ isLoading = FALSE
    /\ error = NoError
    /\ currentSlide = 0
    /\ genPromise = NoPromise
    /\ imageDescription = [f \in Files |-> ""]
    /\ batches = {}
    /\ usedFiles = {}
    /\ mounted = FALSE
    /\ hasSpeechAPI \in BOOLEAN
    /\ isLiveTranscriptionSupported = FALSE
    /\ transcriptionMode = "live"
    /\ isTranscribing = FALSE
    /\ speechRecognitionRef = NoRecognition
    /\ finalTranscriptRef = <<>>
    /\ engine = "inactive"
    /\ orphanEnds = {}
    /\ mediaRecorderRef = 0
    /\ audioChunksRef = {}
    /\ mediaRequests = 0
    /\ recorders = <<>>
    /\ transcriptions = {}
    /\ isDownloading = FALSE
    /\ captureContainers = 0
    /\ downloads = <<>>
    /\ lastOp = <<"init", 0>>


\* ------------------------------------------------- inputs
ValidSlide(p) == Element("object", RequiredKeys, TRUE, p)
ImageToken(digits) == Str(IMAGE_ \o digits)

\* every shape of element the validation tells apart
GenElements ==
    UNION {{Element("object", ks, ca, Undefined) : ca \in {c \in BOOLEAN : c => "content" \in ks}} :
              ks \in SUBSET RequiredKeys}
        \cup {Element(t, {}, FALSE, Undefined) : t \in {"null", "number", "string", "array"}}

GenResponses ==
    {Reject, Unparseable} \cup NonArrayJson
        \cup {JsonArray(a) : a \in SeqsUpTo(GenElements, MaxElems)}

SessionElements ==
    {ValidSlide(p) : p \in {Undefined, ImageToken(<<"1">>), ImageToken(<<"2">>)}}
        \cup {Element("object", RequiredKeys \ {"title"}, TRUE, Undefined),
              Element("null", {}, FALSE, Undefined)}

SessionResponses ==
    {Reject, Unparseable, TextResponse("object", <<>>)}
        \cup {JsonArray(a) : a \in SeqsUpTo(SessionElements, MaxSlides)}

NavResponses ==
    {JsonArray(a) : a \in SeqsUpTo({ValidSlide(Undefined), ValidSlide(ImageToken(<<"1">>))},
                                   NavSlides)}

\* placeholder tokens: text around an IMAGE_<digits> part, or without one
TokenDigits == {"0", "1", "2", "3"}
TokenParts ==
    {<<>>, IMAGE_} \cup {IMAGE_ \o d : d \in SeqsUpTo(TokenDigits, MaxDigits) \ {<<>>}}
ResolveTokens ==
    {Undefined}
        \cup {Str(pre \o part \o suf) :
                 pre \in {<<>>, IMAGE_ \o <<"X">>},
                 part \in TokenParts,
                 suf \in {<<>>, <<"X">> \o IMAGE_ \o <<"1">>}}

ResolveResponses == {JsonArray(<<ValidSlide(p)>>) : p \in ResolveTokens}

\* recognition events: the results from resultIndex on
Words == {<<"a">>, <<"b">>}
RecognitionResults ==
    SeqsUpTo({[isFinal |-> f, transcript |-> w] : f \in BOOLEAN, w \in Words}, MaxResults)
        \ {<<>>}

\* the remote transcription call's outcomes
TranscribeResponses ==
    {[kind |-> "reject", text |-> <<>>], [kind |-> "text", text |-> <<"a", " ">>]}

\* ------------------------------------------------- specifications
EditTranscriptAny == \E text \in Texts : EditTranscript(text)
EditTranscriptSession == \E text \in {<<>>, <<" ">>, <<"a">>} : EditTranscript(text)
EditTranscriptOne == EditTranscript(<<"a">>)
GenSettleSession == \E response \in SessionResponses : GenSettle(response)
GenSettleGen == \E response \in GenResponses : GenSettle(response)
GenSettleResolve == \E response \in ResolveResponses : GenSettle(response)
GenSettleNav == \E response \in NavResponses : GenSettle(response)
FileChangeSession == \E f \in 1 .. SessionFiles : handleFileChange(<<f>>)
FileChangeAny == \E files \in DistinctSeqs(Files, MaxFiles) : handleFileChange(files)
ReaderLoadAny == \E b \in batches : \E i \in b.unread : ReaderLoad(b, i)
ReaderErrorAny == \E b \in batches : \E i \in b.unread : ReaderError(b, i)
RemoveImageAny == \E index \in 1 .. Len(uploadedImages) : handleRemoveImage(index)
DescriptionChangeAny ==
    \E index \in 1 .. Len(uploadedImages) : \E d \in Descriptions :
        handleDescriptionChange(index, d)

\* the session: transcript, images, generation and navigation
Next ==
    \/ EditTranscriptSession
    \/ GenerateClick
    \/ GenSettleSession
    \/ NextSlideClick
    \/ PrevSlideClick
    \/ FileChangeSession
    \/ ReaderLoadAny
    \/ RemoveImageAny

Spec == Init /\ [][Next]_vars

\* the structuring client on every shape of response
NextGen ==
    \/ EditTranscriptAny
    \/ GenerateClick
    \/ GenSettleGen

SpecGen == Init /\ [][NextGen]_vars

\* the navigator's handlers, called at every index
NextNav ==
    \/ EditTranscriptOne
    \/ GenerateClick
    \/ GenSettleNav
    \/ handleNextSlide
    \/ handlePrevSlide

SpecNav == Init /\ [][NextNav]_vars


\* the placeholder resolver on every token, against every image list; the
\* presentations are generated from images alone
NextResolve ==
    \/ GenerateClick
    \/ GenSettleResolve
    \/ FileChangeSession
    \/ ReaderLoadAny
    \/ RemoveImageAny

SpecResolve == Init /\ [][NextResolve]_vars

\* image ingestion: selections of several files, read in any order
NextUpload ==
    \/ FileChangeAny
    \/ ReaderLoadAny
    \/ ReaderErrorAny
    \/ RemoveImageAny
    \/ DescriptionChangeAny

SpecUpload == Init /\ [][NextUpload]_vars

OnResultAny == \E results \in RecognitionResults : OnResult(results)
OrphanEndAny == \E closure \in orphanEnds : OrphanEnd(closure)
RecorderStopAny == \E r \in 1 .. Len(recorders) : \E size \in {0, 1} : RecorderStop(r, size)
BlobLoadEndAny == \E t \in transcriptions : BlobLoadEnd(t)
BlobErrorAny == \E t \in transcriptions : BlobError(t)
TranscribeSettleAny ==
    \E t \in transcriptions : \E response \in TranscribeResponses :
        TranscribeSettle(t, response)

\* live transcription: the record button, the mode toggle and the transcript
\* box against the recognition engine's events; microphone requests stay
\* unanswered
NextLive ==
    \/ Mount
    \/ ToggleMode
    \/ StartRecording
    \/ StopRecording
    \/ OnResultAny
    \/ OnEnd
    \/ OrphanEndAny
    \/ EditTranscriptOne

SpecLive == Init /\ [][NextLive]_vars

OnResultOne ==
    \E final \in BOOLEAN : OnResult(<<[isFinal |-> final, transcript |-> <<"a">>]>>)

\* the recorder: both transcription modes, with the microphone, the
\* MediaRecorder and the remote transcription call
NextRec ==
    \/ Mount
    \/ ToggleMode
    \/ StartRecording
    \/ StopRecording
    \/ OnResultOne
    \/ OnEnd
    \/ OrphanEndAny
    \/ UserMediaResolve
    \/ UserMediaReject
    \/ RecorderConstructThrows
    \/ RecorderStopAny
    \/ BlobLoadEndAny
    \/ BlobErrorAny
    \/ TranscribeSettleAny

SpecRec == Init /\ [][NextRec]_vars

\* high-accuracy capture: the microphone request, the MediaRecorder's events,
\* the blob read and the transcription call, with the mode toggle and the
\* recognition engine's end events; the engine delivers no results
NextHi ==
    \/ Mount
    \/ ToggleMode
    \/ StartRecording
    \/ StopRecording
    \/ OnEnd
    \/ OrphanEndAny
    \/ UserMediaResolve
    \/ UserMediaReject
    \/ RecorderConstructThrows
    \/ RecorderStopAny
    \/ BlobLoadEndAny
    \/ BlobErrorAny
    \/ TranscribeSettleAny

SpecHi == Init /\ [][NextHi]_vars

GenSettleSlide == GenSettle(JsonArray(<<ValidSlide(Undefined)>>))

\* the busy flags against the controls they disable: recording in both modes,
\* the transcription call and the generation request; the microphone is
\* granted, the generation succeeds and the recognition
\* engine delivers no results
NextBusy ==
    \/ Mount
    \/ ToggleMode
    \/ StartRecording
    \/ StopRecording
    \/ OnEnd
    \/ UserMediaResolve
    \/ RecorderStopAny
    \/ BlobLoadEndAny
    \/ BlobErrorAny
    \/ TranscribeSettleAny
    \/ EditTranscriptOne
    \/ GenerateClick
    \/ GenSettleSlide

SpecBusy == Init /\ [][NextBusy]_vars

\* the PDF export: presentations of one slide and more, generated anew while
\* an export runs
PdfResponses ==
    {Reject} \cup {JsonArray(a) : a \in SeqsUpTo({ValidSlide(Undefined)}, MaxSlides)}
GenSettlePdf == \E response \in PdfResponses : GenSettle(response)
CaptureTimerAny == \E d \in 1 .. Len(downloads) : CaptureTimer(d)
CaptureDoneAny == \E d \in 1 .. Len(downloads) : CaptureDone(d)
CaptureFailsAny == \E d \in 1 .. Len(downloads) : CaptureFails(d)

NextPdf ==
    \/ EditTranscriptOne
    \/ GenerateClick
    \/ GenSettlePdf
    \/ NextSlideClick
    \/ PrevSlideClick
    \/ DownloadClick
    \/ CaptureTimerAny
    \/ CaptureDoneAny
    \/ CaptureFailsAny

SpecPdf == Init /\ [][NextPdf]_vars

\* transcripts, generations and navigation, with a remote generation call
\* that settles whenever one is outstanding
NextSettles ==
    \/ EditTranscriptSession
    \/ GenerateClick
    \/ GenSettleSession
    \/ NextSlideClick
    \/ PrevSlideClick

SpecSettles == Init /\ [][NextSettles]_vars /\ WF_vars(GenSettleSession)

\* ------------------------------------------------- properties
\* the promise of generatePresentationFromText has just settled
GenSettled == lastOp[1] = "generatePresentationFromText"

\* an element with the three required keys whose content is an array
WellFormed(e) == RequiredKeys \subseteq e.keys /\ e.contentIsArray

\* a payload that parsed but is not an array of well-formed elements
Malformed(response) ==
    /\ response.kind = "text"
    /\ response.json # "unparseable"
    /\ \/ response.json # "array"
       \/ \E i \in 1 .. Len(response.elems) : ~WellFormed(response.elems[i])

\* C1: a returned payload that is not an array, or that has an element without
\* title, content or speakerNotes or whose content is not an array, makes the
\* call fail with an error; it returns no value and no presentation is exposed.
C1_RejectsMalformedPayload ==
    GenSettled /\ Malformed(lastOp[2].response) =>
        /\ ~lastOp[2].result.ok
        /\ lastOp[2].result.error # ""
        /\ lastOp[2].result.value = <<>>
        /\ presentation.isNull

C1_Witness ==
    /\ GenSettled
    /\ lastOp[2].response.json = "array"
    /\ Len(lastOp[2].response.elems) = 2
    /\ WellFormed(lastOp[2].response.elems[1])
    /\ lastOp[2].response.elems[2].keys = {"title", "content"}
    /\ ~lastOp[2].result.ok

\* C2 as stated: for a non-empty transcript generatePresentationFromText returns
\* a non-empty slide sequence or raises the generation error, never an empty one.
C2_NeverReturnsEmpty ==
    GenSettled /\ Trim(lastOp[2].text) # <<>> =>
        \/ lastOp[2].result.ok /\ Len(lastOp[2].result.value) > 0
        \/ ~lastOp[2].result.ok /\ lastOp[2].result.error = GenerationError

\* C2 amended: for a non-empty transcript generatePresentationFromText returns
\* an array of well-formed slides, which is empty when the remote model returns
\* the empty array, or raises the generation error; an empty array is not
\* exposed: handleGeneratePresentation leaves the presentation absent and sets
\* the error message.
C2_EmptyResultBecomesError ==
    GenSettled /\ Trim(lastOp[2].text) # <<>> =>
        /\ \/ /\ lastOp[2].result.ok
              /\ \A i \in 1 .. Len(lastOp[2].result.value) :
                     WellFormed(lastOp[2].result.value[i])
              /\ lastOp[2].result.value = <<>> <=> lastOp[2].response = JsonArray(<<>>)
           \/ ~lastOp[2].result.ok /\ lastOp[2].result.error = GenerationError
        /\ lastOp[2].result.ok /\ lastOp[2].result.value = <<>> =>
               presentation.isNull /\ error = EmptyResultError

C2_Witness ==
    /\ GenSettled
    /\ Trim(lastOp[2].text) # <<>>
    /\ lastOp[2].response = JsonArray(<<>>)
    /\ lastOp[2].result.ok
    /\ presentation.isNull
    /\ error = EmptyResultError

\* a generation that fails by transport, parse or validation error, or that
\* yields an empty array
FailedOrEmpty(response) ==
    \/ response.kind = "reject"
    \/ response.json = "unparseable"
    \/ Malformed(response)
    \/ response.json = "array" /\ response.elems = <<>>

\* C3: the exposed presentation is absent or a non-empty array of validated
\* slides, and after a generation that failed or yielded the empty array the
\* presentation is absent and one error message is set.
C3_NoMalformedPresentationExposed ==
    /\ \/ presentation.isNull
       \/ /\ Len(presentation.arr) > 0
          /\ \A i \in 1 .. Len(presentation.arr) : WellFormed(presentation.arr[i])
    /\ GenSettled /\ FailedOrEmpty(lastOp[2].response) =>
           /\ presentation.isNull
           /\ error \in {EmptyResultError, CaughtError(GenerationError)}

C3_Witness ==
    /\ GenSettled
    /\ lastOp[2].response.json = "array"
    /\ Len(lastOp[2].response.elems) = 2
    /\ WellFormed(lastOp[2].response.elems[1])
    /\ ~WellFormed(lastOp[2].response.elems[2])
    /\ presentation.isNull
    /\ error = CaughtError(GenerationError)

\* C4: a transport failure, a parse failure and a validation failure all reach
\* the caller as the one generic generation error, never as the format error.
C4_FailuresAreOneGenericError ==
    GenSettled =>
        /\ \/ lastOp[2].response.kind = "reject"
           \/ lastOp[2].response.json = "unparseable"
           \/ Malformed(lastOp[2].response)
           => ~lastOp[2].result.ok
        /\ ~lastOp[2].result.ok =>
               /\ lastOp[2].result.error = GenerationError
               /\ lastOp[2].result.error # FormatError
               /\ error = CaughtError(GenerationError)

C4_Witness ==
    /\ GenSettled
    /\ lastOp[2].response = TextResponse("object", <<>>)
    /\ lastOp[2].result.error = GenerationError
    /\ error = CaughtError(GenerationError)

\* C6: next() adds one to the index when it is below length - 1 and previous()
\* subtracts one when it is above 0; otherwise each leaves it unchanged.
C6_NavigatorSteps ==
    /\ lastOp[1] = "handleNextSlide" =>
           currentSlide = IF lastOp[2] < Len(presentation.arr) - 1
                          THEN lastOp[2] + 1
                          ELSE lastOp[2]
    /\ lastOp[1] = "handlePrevSlide" =>
           currentSlide = IF lastOp[2] > 0 THEN lastOp[2] - 1 ELSE lastOp[2]

\* on five slides, next() called at index 4 has left the index at 4
C6_Witness ==
    /\ ~presentation.isNull
    /\ Len(presentation.arr) = 5
    /\ lastOp = <<"handleNextSlide", 4>>
    /\ currentSlide = 4

\* C7: the index is 0 when a new presentation replaces the old one, and it is
\* within the presentation whenever one is exposed.
C7_SlideIndexInRange ==
    /\ ~presentation.isNull =>
           currentSlide >= 0 /\ currentSlide < Len(presentation.arr)
    /\ GenSettled /\ ~presentation.isNull => currentSlide = 0

\* a one-slide presentation has replaced one that was viewed at its second slide
C7_Witness ==
    /\ GenSettled
    /\ lastOp[2].viewed = 1
    /\ ~presentation.isNull
    /\ Len(presentation.arr) = 1
    /\ currentSlide = 0


\* the positions of str where IMAGE_ is followed by a digit
Occurrences(str) ==
    {i \in 1 .. Len(str) - Len(IMAGE_) :
        SubSeq(str, i, i + Len(IMAGE_) - 1) = IMAGE_ /\ str[i + Len(IMAGE_)] \in Digits}

\* the number written by the digits that follow the first such position
NumberNamed(str) ==
    LET first == CHOOSE i \in Occurrences(str) : \A j \in Occurrences(str) : i <= j
        from == first + Len(IMAGE_)
        to == CHOOSE j \in from .. Len(str) :
                  /\ \A k \in from .. j : str[k] \in Digits
                  /\ j = Len(str) \/ str[j + 1] \notin Digits
        value[k \in from - 1 .. to] ==
            IF k = from - 1 THEN 0 ELSE 10 * value[k - 1] + DigitValue(str[k])
    IN  value[to]

\* images[n - 1] when the token matches IMAGE_<n> with 1 <= n <= images.length,
\* no image otherwise
Resolution(token, images) ==
    IF token.defined /\ Occurrences(token.str) # {}
    THEN LET n == NumberNamed(token.str)
         IN  IF 1 <= n /\ n <= Len(images) THEN Image(images[n]) ELSE NoImage
    ELSE NoImage

\* C5: every slide's placeholder resolves to images[n - 1] when the token
\* matches IMAGE_<n> (as String.match does: anywhere in the token) with
\* 1 <= n <= images.length, and to no image in every other case.
C5_PlaceholderResolution ==
    ~presentation.isNull =>
        \A i \in 1 .. Len(presentation.arr) :
            SlideContent(presentation.arr[i], uploadedImages)
                = Resolution(presentation.arr[i].imagePlaceholder, uploadedImages)

\* IMAGE_3 against two images resolves to no image
C5_Witness ==
    /\ ~presentation.isNull
    /\ presentation.arr[1].imagePlaceholder = ImageToken(<<"3">>)
    /\ Len(uploadedImages) = 2
    /\ SlideContent(presentation.arr[1], uploadedImages) = NoImage

\* C8: a selection whose reads are all complete is appended to the image list
\* in the order in which its files were selected.
C8_SelectionOrderPreserved ==
    lastOp[1] = "reader.onload" /\ lastOp[2].committed =>
        LET files == lastOp[2].batch.files
        IN  SubSeq(uploadedImages, Len(uploadedImages) - Len(files) + 1, Len(uploadedImages))
                = files

\* the text of the results of an event that are final, or that are interim,
\* in the order of the event
EventText(results, final) ==
    LET text[i \in 0 .. Len(results)] ==
            IF i = 0 THEN <<>>
            ELSE IF results[i].isFinal = final
                 THEN text[i - 1] \o results[i].transcript
                 ELSE text[i - 1]
    IN  text[Len(results)]

IsPrefix(s, t) == Len(s) <= Len(t) /\ SubSeq(t, 1, Len(s)) = s

\* C9: a recognition event appends its final results, and nothing else, to the
\* accumulated final text and leaves the displayed transcript equal to the
\* accumulated final text followed by the event's interim text; between two
\* calls of startRecording, which empties it, every value of the accumulated
\* final text is a prefix of the next.
C9_LiveAccumulation ==
    [][/\ lastOp'[1] = "recognition.onresult" =>
              /\ finalTranscriptRef' = finalTranscriptRef \o EventText(lastOp'[2], TRUE)
              /\ transcript' = finalTranscriptRef' \o EventText(lastOp'[2], FALSE)
       /\ lastOp'[1] # "startRecording" => IsPrefix(finalTranscriptRef, finalTranscriptRef')
      ]_vars

\* after a final "a", an event with an interim "b" before a final "b"
C9_Witness ==
    /\ lastOp[1] = "recognition.onresult"
    /\ lastOp[2] = <<[isFinal |-> FALSE, transcript |-> <<"b">>],
                     [isFinal |-> TRUE, transcript |-> <<"b">>]>>
    /\ finalTranscriptRef = <<"a", "b">>
    /\ transcript = <<"a", "b", "b">>

\* C10 as stated: in live mode an end event of the recognition engine that
\* arrives while the recording state is recording leaves it stopped.
C10_EngineEndStopsRecording ==
    /\ lastOp[1] = "recognition.onend"
    /\ lastOp[2] = "recording"
    /\ transcriptionMode = "live"
    => recordingState = "stopped"

\* C11: once the component is mounted, every change of the transcription mode
\* starts in a state where the recording state is not recording, no generation
\* is loading and no transcription is outstanding.
C11_ModeChangesOnlyWhenIdle ==
    [][mounted /\ transcriptionMode' # transcriptionMode =>
           /\ recordingState # "recording"
           /\ ~isLoading
           /\ ~isTranscribing
      ]_vars

\* the mode was switched back to live after a high-accuracy recording was
\* transcribed and a presentation generated
C11_Witness ==
    /\ lastOp = <<"setTranscriptionMode", "high-accuracy">>
    /\ transcriptionMode = "live"
    /\ recordingState = "stopped"
    /\ transcript = <<"a">>
    /\ mediaRecorderRef # 0
    /\ ~presentation.isNull

\* C12: on a platform without the speech recognition API, once the mount probe
\* has run the mode is high-accuracy and the toggle is disabled (live
\* transcription is not marked supported), so the mode stays high-accuracy; no
\* recognition object exists, the engine never runs and no startRecording
\* takes the live branch.
C12_UnsupportedForcesHighAccuracy ==
    ~hasSpeechAPI /\ mounted =>
        /\ transcriptionMode = "high-accuracy"
        /\ ~isLiveTranscriptionSupported
        /\ speechRecognitionRef.isNull
        /\ engine = "inactive"
        /\ lastOp[1] = "startRecording" => lastOp[2] = ""

\* without the API, a second high-accuracy recording has been transcribed
C12_Witness ==
    /\ ~hasSpeechAPI
    /\ lastOp[1] = "transcribeAudio"
    /\ Len(recorders) = 2
    /\ transcriptionMode = "high-accuracy"

\* C13 as stated: while a blob made from buffered chunks is being read or
\* transcribed the transcript is the busy placeholder; when the call settles
\* the transcript is the returned text, or on failure the formatted error
\* message, which is also raised as an alert.
C13_PlaceholderUntilSettled ==
    /\ transcriptions # {} => transcript = TranscribingMessage
    /\ lastOp[1] = "transcribeAudio" /\ transcriptions = {} =>
           IF lastOp[2].result.ok
           THEN transcript = lastOp[2].result.text
           ELSE /\ transcript = TranscriptionErrorMessage(lastOp[2].result.error)
                /\ lastOp[2].alert = transcript

\* the transcription call, or the read of the audio blob, has just settled
TranscriptionSettled == lastOp[1] \in {"transcribeAudio", "reader.onerror"}

StartFailed ==
    /\ lastOp[1] \in {"startRecording", "getUserMedia"}
    /\ lastOp[2] \in {LiveStartAlert, LiveUnavailableAlert, MicrophoneAlert}

\* the microphone is captured: the engine listens, or a stream's tracks are live
CaptureActive ==
    \/ engine = "listening"
    \/ \E r \in 1 .. Len(recorders) : recorders[r].state \in {"recording", "unconstructed"}

\* C15 as stated: when starting a recording fails, in either mode, the recording
\* state ends as idle with an alert raised, and no capture is left active.
C15_StartFailureResets ==
    StartFailed => recordingState = "idle" /\ ~CaptureActive

\* C16: the PDF export releases its off-screen resources on every path: a
\* capture container is attached to the document exactly while the call that
\* made it is running, the downloading flag is set exactly while the call
\* started by the mounted viewer is running, and when a call has ended, with
\* the document saved or with the alert of a failed capture or assembly, its
\* container is gone and its viewer's flag is false.
ExportRunning == \E d \in 1 .. Len(downloads) : downloads[d].viewer = "mounted"
ExportEnded == lastOp[1] = "handleDownloadPdf.finally"

C16_ExportReleasesResources ==
    /\ captureContainers = Len(downloads)
    /\ (isDownloading <=> ExportRunning)
    /\ (ExportEnded =>
            /\ (lastOp[2].saved <=> lastOp[2].alert = "")
            /\ (~lastOp[2].saved => lastOp[2].alert = PdfAlert)
            /\ (lastOp[2].viewer = "mounted" => ~isDownloading))

\* the capture of the second slide failed: the alert was raised, no container
\* is left and the download button is enabled again
C16_Witness ==
    /\ ExportEnded
    /\ lastOp[2] = [i |-> 1, saved |-> FALSE, alert |-> PdfAlert, viewer |-> "mounted"]
    /\ captureContainers = 0
    /\ ~isDownloading
    /\ ~presentation.isNull

\* C17: at most one generation request is outstanding: a request is pending
\* exactly while the generation busy flag is set, and over the actions the
\* controls permit no step triggers a generation while the generation busy flag
\* or the transcription busy flag is set, or while a request is pending.
GenerationOutstanding == genPromise.state = "pending"

C17_OneGenerationAtATime ==
    /\ [](GenerationOutstanding <=> isLoading)
    /\ [][lastOp'[1] = "handleGeneratePresentation" =>
              /\ ~isLoading
              /\ ~isTranscribing
              /\ ~GenerationOutstanding
              /\ GenerationOutstanding'
         ]_vars

\* a generation triggered after a high-accuracy recording was stopped, its
\* stop event delivered and no transcription is running
C17_Witness ==
    /\ lastOp[1] = "handleGeneratePresentation"
    /\ GenerationOutstanding
    /\ isLoading
    /\ ~isTranscribing
    /\ transcriptions = {}
    /\ recordingState = "stopped"
    /\ transcriptionMode = "high-accuracy"
    /\ recorders = <<Recorder("inactive", FALSE)>>
    /\ transcript = <<"a">>

\* C18: at most one recording session is active at any time: no two input
\* streams are live at once, the recognition engine does not listen while a
\* media recorder records, and no media recorder or recognition session is
\* active while the recording state is idle or stopped.
RecordersActive == {r \in 1 .. Len(recorders) : recorders[r].state = "recording"}
StreamsLive ==
    {r \in 1 .. Len(recorders) : recorders[r].state \in {"recording", "unconstructed"}}
SessionActive == engine = "listening" \/ RecordersActive # {}

C18_OneRecordingSession ==
    /\ Cardinality(StreamsLive) <= 1
    /\ ~(engine = "listening" /\ RecordersActive # {})
    /\ (recordingState \in {"idle", "stopped"} => ~SessionActive)

\* C19: a new recording is never started while the previous recording is
\* being transcribed: in no reachable state is the recording state recording
\* while a transcription (the read of the blob or the remote call) is
\* outstanding.
TranscriptionOutstanding == isTranscribing \/ transcriptions # {}

C19_NoRecordingWhileTranscribing ==
    ~(recordingState = "recording" /\ TranscriptionOutstanding)

\* C20: no cross-session reuse of the capture buffers: when startRecording
\* has run, the final-text buffer and the transcript are empty; when a
\* high-accuracy session's recorder has started, the chunk buffer is empty; no
\* session is recording while the recognition engine still owes the results of
\* a stopped live session; and the blob that a recorder's stop event hands to
\* the transcription holds chunks of that recorder's session only.
C20_NoCrossSessionReuse ==
    /\ (lastOp[1] = "startRecording" => finalTranscriptRef = <<>> /\ transcript = <<>>)
    /\ (lastOp = <<"getUserMedia", "">> => audioChunksRef = {})
    /\ ~(recordingState = "recording" /\ engine = "stopping")
    /\ (lastOp[1] = "handleGeminiTranscription" =>
            lastOp[2].blob \subseteq {lastOp[2].recorder})

\* the second of two overlapping high-accuracy sessions hands over its own
\* chunk while the first session's blob, delivered after the second session
\* had started, is still being transcribed
C20_Witness ==
    /\ lastOp = <<"handleGeminiTranscription", [recorder |-> 2, blob |-> {2}]>>
    /\ \E t \in transcriptions : t.blob = {1}
    /\ Cardinality(transcriptions) = 2

\* C21: a selected batch is committed atomically and only when complete: no
\* file of a batch whose reads are not all done is in the image list, no file
\* is in the image list twice, and the read that completes a batch commits all
\* of the batch's files together, as the last entries of the list.
Listed(images) == {images[k] : k \in 1 .. Len(images)}
BatchFiles(b) == {b.files[k] : k \in 1 .. Len(b.files)}
BatchCommitted == lastOp[1] = "reader.onload" /\ lastOp[2].committed

C21_BatchCommitIsAtomic ==
    /\ \A b \in batches : BatchFiles(b) \cap Listed(uploadedImages) = {}
    /\ \A j, k \in 1 .. Len(uploadedImages) : uploadedImages[j] = uploadedImages[k] => j = k
    /\ (lastOp[1] = "reader.onload" /\ ~lastOp[2].committed =>
            lastOp[2].file \notin Listed(uploadedImages))
    /\ (BatchCommitted =>
            LET files == lastOp[2].batch.files
                n == Len(uploadedImages)
            IN  /\ n >= Len(files)
                /\ Listed(SubSeq(uploadedImages, n - Len(files) + 1, n)) = BatchFiles(lastOp[2].batch)
                /\ lastOp[2].batch.unread = {k \in 1 .. Len(files) : files[k] = lastOp[2].file})

\* the last read of a selection of two files commits both while another
\* selection is still being read
C21_Witness ==
    /\ BatchCommitted
    /\ Len(lastOp[2].batch.files) = 2
    /\ BatchFiles(lastOp[2].batch) \subseteq Listed(uploadedImages)
    /\ batches # {}

\* C22: stop signals are idempotent: a step taken in the stopped state by a
\* stop signal (the recognition engine's end event, stopRecording, the stop
\* callback of a settled transcription or of a recording without data) leaves
\* the recording state stopped, starts no transcription, queues no stop event
\* of a recorder and stops no engine.
StopSignals ==
    {"recognition.onend", "stopRecording", "transcribeAudio", "reader.onerror"}
StopSignal(op) ==
    \/ op[1] \in StopSignals
    \/ op[1] = "handleGeminiTranscription" /\ op[2].blob = {}
StopEventsQueued == {r \in 1 .. Len(recorders) : recorders[r].stopEvent}

C22_StopIsIdempotent ==
    [][recordingState = "stopped" /\ StopSignal(lastOp') =>
           /\ recordingState' = "stopped"
           /\ transcriptions' \subseteq transcriptions
           /\ StopEventsQueued' \subseteq StopEventsQueued
           /\ engine' \in {engine, "inactive"}
      ]_vars

\* the engine's end event arrived after the user had stopped a live recording
\* in which text was recognised
C22_Witness ==
    /\ lastOp = <<"recognition.onend", "stopped">>
    /\ recordingState = "stopped"
    /\ transcriptionMode = "live"
    /\ engine = "inactive"
    /\ finalTranscriptRef # <<>>

\* C23: a presentation is replaced wholesale: triggering a generation removes
\* the exposed presentation and nothing is exposed while the request runs; a
\* settled request exposes exactly the slide array it returned, or nothing
\* when it failed or returned no slide; and only the trigger and the settling
\* of a generation change the presentation, so navigation never does.
GenerationSteps == {"handleGeneratePresentation", "generatePresentationFromText"}

C23_ReplacedWholesale ==
    /\ [](isLoading => presentation.isNull)
    /\ [](GenSettled =>
            IF lastOp[2].result.ok /\ Len(lastOp[2].result.value) > 0
            THEN presentation = Arr(lastOp[2].result.value)
            ELSE presentation.isNull)
    /\ [][presentation' # presentation => lastOp'[1] \in GenerationSteps]_vars
    /\ [][lastOp'[1] = "handleGeneratePresentation" => presentation'.isNull]_vars

\* a request made while the second slide of a presentation was shown has
\* failed: nothing is exposed
C23_Witness ==
    /\ GenSettled
    /\ lastOp[2].viewed = 1
    /\ ~lastOp[2].result.ok
    /\ presentation.isNull
    /\ error # NoError

\* C24: the generation busy flag tracks the outstanding request exactly: it is
\* set exactly while a request is pending, only the settling of the request
\* clears it (there is no timeout, so a call that never settles leaves it set),
\* and when the call settles, whatever its outcome, the flag becomes false.
C24_LoadingTracksRequest ==
    /\ [](isLoading <=> genPromise.state = "pending")
    /\ [][isLoading /\ ~isLoading' => lastOp'[1] = "generatePresentationFromText"]_vars
    /\ [][~isLoading /\ isLoading' => lastOp'[1] = "handleGeneratePresentation"]_vars
    /\ (isLoading ~> ~isLoading)

\* a request was rejected and the flag is clear again
C24_Witness ==
    /\ GenSettled
    /\ lastOp[2].response = Reject
    /\ ~isLoading
    /\ genPromise = NoPromise
    /\ error = CaughtError(GenerationError)

\* C25: a recording in progress can always be stopped by the user: whenever
\* the recording state is recording the record button's stop is enabled, and
\* when stopRecording has run the recognition engine no longer listens and the
\* recording state is stopped.
C25_RecordingCanBeStopped ==
    /\ (recordingState = "recording" => ENABLED StopRecording)
    /\ (lastOp[1] = "stopRecording" => recordingState = "stopped" /\ engine # "listening")

\* C26: stale image references degrade only to no image: a removal made while
\* a presentation is exposed leaves every slide's placeholder resolving to the
\* image it resolved to before the removal, or to no image; a placeholder that
\* resolved to no image keeps doing so.
C26_StaleReferencesDegrade ==
    [][lastOp'[1] = "handleRemoveImage" /\ ~presentation.isNull =>
           \A i \in 1 .. Len(presentation.arr) :
               SlideContent(presentation.arr[i], uploadedImages')
                   \in {SlideContent(presentation.arr[i], uploadedImages), NoImage}
      ]_vars

\* C27: committing a batch loses no other change to the image list: the read
\* that completes a selection appends the selection's files to the image list
\* as it is at that moment, so the list before the commit is kept as the
\* beginning of the list after it.
C27_CommitAppendsToCurrentList ==
    [][lastOp'[1] = "reader.onload" /\ lastOp'[2].committed =>
           /\ Len(uploadedImages') = Len(uploadedImages) + Len(lastOp'[2].batch.files)
           /\ SubSeq(uploadedImages', 1, Len(uploadedImages)) = uploadedImages
      ]_vars

====
